---- MODULE Spec2Model ----
(***************************************************************************)
(* The SCTP daytime pair: the server daytimed (src/daytimed.c) and the     *)
(* client daytime (src/unnamed/part_000).                                  *)
(*                                                                         *)
(* Each process is a sequential program whose position is a pc variable;   *)
(* the kernel (descriptor tables, the listen backlog, the per-association  *)
(* receive queue) and every result a system call can return are the        *)
(* environment, chosen with \E.  Text is a sequence of characters; the     *)
(* nineteen characters strftime renders for "%F %T" are one symbolic       *)
(* character, "tl" when rendered from localtime and "tg" from gmtime.      *)
(***************************************************************************)
EXTENDS Integers, Sequences, FiniteSets, TLC

\* ------------------------------------------------------------------ bounds
NumAssocs == 2      \* associations set up with the server in one run
MaxCand == 3        \* longest address list getaddrinfo returns
NumFds == 3         \* descriptors a process can hold beyond stdin/out/err
MaxPeerMsgs == 2    \* messages an arbitrary (non-daytimed) peer sends

\* ------------------------------------------------------- program constants
DAYTIME_STREAM_LOCAL == 0
DAYTIME_STREAM_GMT == 1
Backlog == 42
EXIT_SUCCESS == 0
EXIT_FAILURE == 1

Assocs == 1..NumAssocs
\* The association of the daytime client process; the others belong to remote
\* SCTP clients of which only the connect is modelled.
Own == CHOOSE a \in Assocs : \A b \in Assocs : a <= b
Fds == 3..(2 + NumFds)
Streams == 0..2                 \* stream numbers an arbitrary peer may use
NoFd == -1                      \* the failure sentinel of socket, accept and sctp_listen

HostArg == "host"               \* argv[1] of the client
PortArg == "port"               \* argv[2] of the client, argv[1] of the server
PeerHost == "peerhost"          \* what getnameinfo renders for the peer
PeerServ == "peerserv"

\* -------------------------------------------------------------------- text
CRLF == <<"CR", "LF">>

Last(s) == s[Len(s)]

Prefix(s, n) == [i \in 1..n |-> s[i]]

\* strlen and the %s conversion: the characters before the first NUL.
CStr(s) ==
    LET nuls == {i \in 1..Len(s) : s[i] = "NUL"}
    IN  IF nuls = {} THEN s
        ELSE Prefix(s, (CHOOSE i \in nuls : \A j \in nuls : i <= j) - 1)

\* strstr(s, needle): the index of the first occurrence in the C string, 0 for NULL.
StrStr(s, needle) ==
    LET c == CStr(s)
        hits == {i \in 1..(Len(c) - Len(needle) + 1) :
                    \A k \in 1..Len(needle) : c[i + k - 1] = needle[k]}
    IN  IF hits = {} THEN 0 ELSE CHOOSE i \in hits : \A j \in hits : i <= j

\* message[n] = 0; p = strstr(message, "\r\n"); if (p) *p = 0;  then "%s".
TrimCRLF(msg) ==
    LET p == StrStr(msg, CRLF)
    IN  IF p = 0 THEN CStr(msg) ELSE Prefix(msg, p - 1)

\* ------------------------------------------------------------- descriptors
\* socket()/accept() return the lowest descriptor not open, or fail when none is.
HasFree(open) == \E f \in Fds : f \notin open

LowestFree(open) == CHOOSE f \in Fds : f \notin open /\ \A g \in Fds : g \notin open => f <= g

\* ---------------------------------------------------------------- daytimed
\* daytime(buffer, size, local): "" when localtime/gmtime returns NULL.
daytime(tmOk, local) ==
    IF ~tmOk THEN <<>>
    ELSE <<IF local = 1 THEN "tl" ELSE "tg">> \o CRLF

\* close(fd): EBADF (bad) when fd is not an open descriptor of the process.
close(open, fd) == [open |-> open \ {fd}, bad |-> fd \notin open]

\* Mutant: sctp_close left as a stub that closes nothing.
sctp_close_noop(open, fd) == [open |-> open, bad |-> FALSE]

\* sctp_close(fd) of daytimed.c: trivially close().
sctp_close(open, fd) == close(open, fd)

\* The candidate loop of sctp_listen, from candidate i on.  cands[i] is what the
\* kernel answers for candidate i: "sockfail", "bindfail" or "ok".  ai is the
\* candidate the loop stopped at (0: NULL), att the candidates it tried, in order.
RECURSIVE listen_loop(_, _, _, _)
listen_loop(cands, i, fd, open) ==
    IF i > Len(cands)
    THEN [ai |-> 0, fd |-> fd, open |-> open, bad |-> FALSE, att |-> <<>>]
    ELSE IF cands[i] = "sockfail" \/ ~HasFree(open)
         THEN LET r == listen_loop(cands, i + 1, NoFd, open)
              IN  [r EXCEPT !.att = <<i>> \o r.att]
    ELSE LET nfd == LowestFree(open) IN
         IF cands[i] = "ok"
         THEN [ai |-> i, fd |-> nfd, open |-> open \cup {nfd}, bad |-> FALSE,
               att |-> <<i>>]
         ELSE LET c == close(open \cup {nfd}, nfd)
                  r == listen_loop(cands, i + 1, nfd, c.open)
              IN  [r EXCEPT !.bad = r.bad \/ c.bad, !.att = <<i>> \o r.att]

\* Mutant: the bound socket is not closed when listen fails.
sctp_listen_leaks(gai, cands, lis, open) ==
    IF gai # 0
    THEN [ret |-> NoFd, open |-> open, bad |-> FALSE, ai |-> 0, att |-> <<>>,
          err |-> <<<<"daytimed", ": getaddrinfo failed: ", "gai_strerror">>>>]
    ELSE LET r == listen_loop(cands, 1, 0, open) IN
         IF r.ai = 0
         THEN [ret |-> NoFd, open |-> r.open, bad |-> r.bad, ai |-> 0, att |-> r.att,
               err |-> <<<<"daytimed", ": bind failed for port ", PortArg>>>>]
         ELSE IF ~lis
         THEN [ret |-> NoFd, open |-> r.open, bad |-> r.bad, ai |-> r.ai,
               att |-> r.att,
               err |-> <<<<"daytimed", ": listen failed: ", "strerror">>>>]
         ELSE [ret |-> r.fd, open |-> r.open, bad |-> r.bad, ai |-> r.ai,
               att |-> r.att, err |-> <<>>]

\* sctp_listen(port): gai is getaddrinfo's result, lis whether listen() succeeds.
\* ret is the returned descriptor or -1, err what was written to stderr.
sctp_listen(gai, cands, lis, open) ==
    IF gai # 0
    THEN [ret |-> NoFd, open |-> open, bad |-> FALSE, ai |-> 0, att |-> <<>>,
          err |-> <<<<"daytimed", ": getaddrinfo failed: ", "gai_strerror">>>>]
    ELSE LET r == listen_loop(cands, 1, 0, open) IN
         IF r.ai = 0
         THEN [ret |-> NoFd, open |-> r.open, bad |-> r.bad, ai |-> 0, att |-> r.att,
               err |-> <<<<"daytimed", ": bind failed for port ", PortArg>>>>]
         ELSE IF ~lis
         THEN LET c == close(r.open, r.fd) IN
              [ret |-> NoFd, open |-> c.open, bad |-> r.bad \/ c.bad, ai |-> r.ai,
               att |-> r.att,
               err |-> <<<<"daytimed", ": listen failed: ", "strerror">>>>]
         ELSE [ret |-> r.fd, open |-> r.open, bad |-> r.bad, ai |-> r.ai,
               att |-> r.att, err |-> <<>>]

\* Mutant: the scan does not stop at the first candidate that connects; it goes
\* on to the last one that does.
connect_loop_last(cands, i, fd, open) ==
    LET oks == {k \in i..Len(cands) : cands[k] = "ok"}
        k == IF oks = {} THEN Len(cands) ELSE CHOOSE m \in oks : \A o \in oks : o <= m
        nfd == LowestFree(open)
    IN  [ai |-> IF oks = {} THEN 0 ELSE k,
         fd |-> IF oks = {} THEN NoFd ELSE nfd,
         open |-> IF oks = {} THEN open ELSE open \cup {nfd},
         bad |-> FALSE,
         att |-> [j \in 1..(k - i + 1) |-> i + j - 1]]

\* ----------------------------------------------------------------- daytime
\* The candidate loop of sctp_connect; cands[i] is "sockfail", "connfail" or "ok".
RECURSIVE connect_loop(_, _, _, _)
connect_loop(cands, i, fd, open) ==
    IF i > Len(cands)
    THEN [ai |-> 0, fd |-> fd, open |-> open, bad |-> FALSE, att |-> <<>>]
    ELSE IF cands[i] = "sockfail" \/ ~HasFree(open)
         THEN LET r == connect_loop(cands, i + 1, NoFd, open)
              IN  [r EXCEPT !.att = <<i>> \o r.att]
    ELSE LET nfd == LowestFree(open) IN
         IF cands[i] = "ok"
         THEN [ai |-> i, fd |-> nfd, open |-> open \cup {nfd}, bad |-> FALSE,
               att |-> <<i>>]
         ELSE LET c == close(open \cup {nfd}, nfd)
                  r == connect_loop(cands, i + 1, nfd, c.open)
              IN  [r EXCEPT !.bad = r.bad \/ c.bad, !.att = <<i>> \o r.att]

\* Mutant: the message names the port only.
connect_failed_msg_nohost ==
    <<"daytime", ": socket or connect: failed for port ", PortArg>>

\* The message of sctp_connect when no candidate connected.
connect_failed_msg ==
    <<"daytime", ": socket or connect: failed for ", HostArg, " port ", PortArg>>

\* The message of sctp_connect when getaddrinfo failed.
connect_gai_msg == <<"daytime", ": getaddrinfo: ", "gai_strerror">>

\* Mutant: on exhaustion sctp_connect prints the message and returns fd.
sctp_connect_returns(gai, cands, open) ==
    IF gai # 0
    THEN [exit |-> TRUE, fd |-> 0, ai |-> 0, open |-> open, bad |-> FALSE,
          att |-> <<>>, err |-> <<connect_gai_msg>>]
    ELSE LET r == connect_loop(cands, 1, 0, open) IN
         [exit |-> FALSE, fd |-> r.fd, ai |-> r.ai, open |-> r.open, bad |-> r.bad,
          att |-> r.att, err |-> IF r.ai = 0 THEN <<connect_failed_msg>> ELSE <<>>]

\* sctp_connect(host, port): exits the process (exit = TRUE) on failure.
sctp_connect(gai, cands, open) ==
    IF gai # 0
    THEN [exit |-> TRUE, fd |-> 0, ai |-> 0, open |-> open, bad |-> FALSE,
          att |-> <<>>, err |-> <<connect_gai_msg>>]
    ELSE LET r == connect_loop(cands, 1, 0, open) IN
         IF r.ai = 0
         THEN [exit |-> TRUE, fd |-> r.fd, ai |-> 0, open |-> r.open, bad |-> r.bad,
               att |-> r.att, err |-> <<connect_failed_msg>>]
         ELSE [exit |-> FALSE, fd |-> r.fd, ai |-> r.ai, open |-> r.open,
               bad |-> r.bad, att |-> r.att, err |-> <<>>]

\* sctp_close(fd) of the client: trivially close().
client_sctp_close(open, fd) == close(open, fd)

\* "%d" of a stream number below ten.
StreamStr(s) == <<"0", "1", "2", "3", "4", "5", "6", "7", "8", "9">>[s + 1]

\* Mutant: the two labels are exchanged.
demux_swapped(stream, msg) ==
    LET text == TrimCRLF(msg) IN
    IF stream = DAYTIME_STREAM_LOCAL
    THEN [out |-> <<[host |-> PeerHost, serv |-> PeerServ, text |-> text,
                     label |-> "(gmt time)"]>>, err |-> <<>>]
    ELSE IF stream = DAYTIME_STREAM_GMT
    THEN [out |-> <<[host |-> PeerHost, serv |-> PeerServ, text |-> text,
                     label |-> "(local time)"]>>, err |-> <<>>]
    ELSE [out |-> <<>>,
          err |-> <<<<"daytime", ": ignoring message from unknown stream ",
                      StreamStr(stream)>>>>]

\* Mutant: the default case falls through to the gmt case after its diagnostic.
demux_falls_through(stream, msg) ==
    LET text == TrimCRLF(msg) IN
    IF stream = DAYTIME_STREAM_LOCAL
    THEN [out |-> <<[host |-> PeerHost, serv |-> PeerServ, text |-> text,
                     label |-> "(local time)"]>>, err |-> <<>>]
    ELSE [out |-> <<[host |-> PeerHost, serv |-> PeerServ, text |-> text,
                     label |-> "(gmt time)"]>>,
          err |-> IF stream = DAYTIME_STREAM_GMT THEN <<>>
                  ELSE <<<<"daytime", ": ignoring message from unknown stream ",
                           StreamStr(stream)>>>>]

\* The body of the receive loop of daytime(fd) for one message of n > 0 bytes:
\* what goes to stdout (out) and to stderr (err).
demux(stream, msg) ==
    LET text == TrimCRLF(msg) IN
    IF stream = DAYTIME_STREAM_LOCAL
    THEN [out |-> <<[host |-> PeerHost, serv |-> PeerServ, text |-> text,
                     label |-> "(local time)"]>>, err |-> <<>>]
    ELSE IF stream = DAYTIME_STREAM_GMT
    THEN [out |-> <<[host |-> PeerHost, serv |-> PeerServ, text |-> text,
                     label |-> "(gmt time)"]>>, err |-> <<>>]
    ELSE [out |-> <<>>,
          err |-> <<<<"daytime", ": ignoring message from unknown stream ",
                      StreamStr(stream)>>>>]

\* ------------------------------------------------------------- environment
GaiResults == {0, -2}           \* getaddrinfo: 0 or an EAI_ error

CandSeqs(outcomes) == UNION {[1..n -> outcomes] : n \in 1..MaxCand}

\* What the environment offered, stated on the inputs alone.
ListenEnv(gai, cands, lis) ==
    IF gai # 0 THEN "unresolved"
    ELSE IF \A i \in 1..Len(cands) : cands[i] # "ok" THEN "exhausted"
    ELSE IF ~lis THEN "listen_failed"
    ELSE "ok"

ConnEnv(gai, cands) ==
    IF gai # 0 THEN "unresolved"
    ELSE IF \A i \in 1..Len(cands) : cands[i] # "ok" THEN "exhausted"
    ELSE "ok"

\* sctp_sendmsg's return value for a message of len bytes: all of it, one byte
\* short, or -1.
SendResults(len) == {-1, len} \cup (IF len > 0 THEN {len - 1} ELSE {})

\* SCTP delivers in order within a stream and in any order across streams: a new
\* message may overtake queued messages of other streams, never one of its own.
InsertAt(q, m, k) == [i \in 1..(Len(q) + 1) |->
                        IF i < k THEN q[i] ELSE IF i = k THEN m ELSE q[i - 1]]

Deliveries(q, m) ==
    {InsertAt(q, m, k) : k \in {j \in 1..(Len(q) + 1) :
                                  \A i \in j..Len(q) : q[i].stream # m.stream}}

\* Texts an arbitrary peer may send (each of positive length).
PeerTexts == {<<"x", "CR", "LF">>, <<"x", "CR", "LF", "y">>, <<"CR", "x", "LF">>,
              <<"x", "NUL", "y">>}

\* ------------------------------------------------------------------- state
VARIABLES
    spc,        \* daytimed: position of the server process
    tfd,        \* daytimed main: the listening descriptor, or -1
    client,     \* sctp_daytime: the accepted descriptor, or -1
    message,    \* sctp_daytime: the message buffer
    results,    \* sctp_daytime: what the sctp_sendmsg calls of this call returned
    sOpen,      \* daytimed: the open descriptors of the process
    sAssoc,     \* daytimed: descriptor -> the association behind it (0: none)
    sExit,      \* daytimed: {} while running, {status} once exited
    sBadClose,  \* daytimed: some close() was given a descriptor that is not open
    sErr,       \* daytimed: lines written to stderr
    slog,       \* daytimed: the messages given to syslog so far
    sEnv,       \* what the environment offered sctp_listen
    sends,      \* association -> the streams of the sctp_sendmsg calls on it, in order
    accepted,   \* association -> accept has returned it
    sclosed,    \* association -> the server has closed it
    handed,     \* streams of the sends on the client's association that took n > 0 bytes
    acceptQ,    \* established associations waiting in the listen backlog
    rq,         \* messages delivered to the client's socket and not yet read
    peerClosed, \* the client's peer has closed its end
    peer,       \* "none", "daytimed" or "other" (an arbitrary SCTP peer)
    npeer,      \* messages an arbitrary peer has sent
    cpc,        \* daytime: position of the client process
    cfd,        \* daytime main: fd
    cOpen,      \* daytime: the open descriptors of the process
    cExit,      \* daytime: {} while running, {status} once exited
    cBadClose,  \* daytime: some close() was given a descriptor that is not open
    cEnv,       \* what the environment offered sctp_connect
    lookup,     \* "none", "ok", or the call of the peer-address lookup that failed
    evOk,       \* setsockopt(SCTP_EVENTS) succeeded: sinfo is filled in
    rcvLog,     \* messages sctp_recvmsg returned: stream sent on, stream seen, text
    rcvEnd,     \* "none", or how the receive loop ended: "eof" or "error"
    out,        \* daytime: lines written to stdout
    err,        \* daytime: lines written to stderr
    scanKind,   \* "none", or the function one call of which is examined
    scanIn,     \* that call's inputs: what the kernel answers, the open descriptors
    scanOut     \* that call's result

svars == <<spc, tfd, client, message, results, sOpen, sAssoc, sExit, sBadClose, sErr,
           slog, sEnv, sends, accepted, sclosed>>
nvars == <<acceptQ, rq, handed, peerClosed, peer, npeer>>
cvars == <<cpc, cfd, cOpen, cExit, cBadClose, cEnv, lookup, evOk, rcvLog, rcvEnd,
           out, err>>
pvars == <<scanKind, scanIn, scanOut>>
vars == <<svars, nvars, cvars, pvars>>

Init ==
    /\ spc = "start"
    /\ tfd = 0
    /\ client = 0
    /\ message = <<>>
    /\ results = <<>>
    /\ sOpen = {}
    /\ sAssoc = [f \in Fds |-> 0]
    /\ sExit = {}
    /\ sBadClose = FALSE
    /\ sErr = <<>>
    /\ slog = {}
    /\ sEnv = "none"
    /\ sends = [a \in Assocs |-> <<>>]
    /\ accepted = [a \in Assocs |-> FALSE]
    /\ sclosed = [a \in Assocs |-> FALSE]
    /\ acceptQ = <<>>
    /\ handed = <<>>
    /\ rq = <<>>
    /\ peerClosed = FALSE
    /\ peer = "none"
    /\ npeer = 0
    /\ cpc = "start"
    /\ cfd = 0
    /\ cOpen = {}
    /\ cExit = {}
    /\ cBadClose = FALSE
    /\ cEnv = "none"
    /\ lookup = "none"
    /\ evOk = TRUE
    /\ rcvLog = <<>>
    /\ rcvEnd = "none"
    /\ out = <<>>
    /\ err = <<>>
    /\ scanKind = "none"
    /\ scanIn = <<>>
    /\ scanOut = <<>>

\* ---------------------------------------------------------- daytimed steps
Listening == spc \in {"accept", "send_local", "send_gmt", "close"} /\ tfd \in sOpen

\* main: tfd = sctp_listen(argv[1]); then the test of while (tfd != -1).
Listen ==
    /\ spc = "start"
    /\ \E gai \in GaiResults, cands \in CandSeqs({"sockfail", "bindfail", "ok"}),
          lis \in BOOLEAN :
          LET r == sctp_listen(gai, cands, lis, sOpen) IN
          /\ tfd' = r.ret
          /\ sOpen' = r.open
          /\ sBadClose' = (sBadClose \/ r.bad)
          /\ sErr' = sErr \o r.err
          /\ sEnv' = ListenEnv(gai, cands, lis)
          /\ spc' = IF r.ret # NoFd THEN "accept" ELSE "main_close"
    /\ UNCHANGED <<client, message, results, sAssoc, sExit, slog, sends,
                   accepted, sclosed>>
    /\ UNCHANGED <<nvars, cvars>>
    /\ UNCHANGED pvars

\* sctp_daytime: client = sctp_accept(listenfd) returns an association.
AcceptOk ==
    /\ spc = "accept"
    /\ acceptQ # <<>>
    /\ HasFree(sOpen)
    /\ LET a == Head(acceptQ)
           fd == LowestFree(sOpen)
       IN  /\ client' = fd
           /\ sOpen' = sOpen \cup {fd}
           /\ sAssoc' = [sAssoc EXCEPT ![fd] = a]
           /\ accepted' = [accepted EXCEPT ![a] = TRUE]
           /\ acceptQ' = Tail(acceptQ)
    /\ \E n \in GaiResults :
          slog' = slog \cup {IF n # 0 THEN "getnameinfo failed" ELSE "connection from"}
    /\ results' = <<>>
    /\ spc' = "send_local"
    /\ UNCHANGED <<tfd, message, sExit, sBadClose, sErr, sEnv, sends, sclosed>>
    /\ UNCHANGED <<rq, handed, peerClosed, peer, npeer, cvars>>
    /\ UNCHANGED pvars

\* Mutant: a failed accept ends the accept loop.
AcceptFail_ends_loop ==
    /\ spc = "accept"
    /\ client' = NoFd
    /\ slog' = slog \cup {"accept failed"}
    /\ spc' = "main_close"
    /\ UNCHANGED <<tfd, message, results, sOpen, sAssoc, sExit, sBadClose, sErr, sEnv,
                   sends, accepted, sclosed>>
    /\ UNCHANGED <<nvars, cvars>>
    /\ UNCHANGED pvars

\* sctp_daytime: sctp_accept returns -1; sctp_daytime returns and main loops.
AcceptFail ==
    /\ spc = "accept"
    /\ client' = NoFd
    /\ slog' = slog \cup {"accept failed"}
    /\ spc' = "accept"
    /\ UNCHANGED <<tfd, message, results, sOpen, sAssoc, sExit, sBadClose, sErr, sEnv,
                   sends, accepted, sclosed>>
    /\ UNCHANGED <<nvars, cvars>>
    /\ UNCHANGED pvars

\* daytime(message, sizeof(message), local); n = sctp_sendmsg(client, message,
\* strlen(message), ..., stream, ...); if (n != strlen(message)) syslog(...).
\* The message reaches the client's receive queue when the call took n > 0 bytes
\* of it and the association is the client's, still open at its end.
send_step(stream, local, failed, next) ==
    /\ \E tmOk \in BOOLEAN :
          LET msg == daytime(tmOk, local)
              a == sAssoc[client]
          IN  \E n \in SendResults(Len(msg)) :
                /\ message' = msg
                /\ results' = Append(results, n)
                /\ sends' = [sends EXCEPT ![a] = Append(@, stream)]
                /\ slog' = slog
                             \cup (IF tmOk THEN {} ELSE {"localtime or gmtime failed"})
                             \cup (IF n # Len(msg) THEN {failed} ELSE {})
                /\ handed' = IF n > 0 /\ a = Own THEN Append(handed, stream) ELSE handed
                /\ IF n > 0 /\ a = Own /\ cfd \in cOpen
                   THEN rq' \in Deliveries(rq, [stream |-> stream, text |-> Prefix(msg, n)])
                   ELSE rq' = rq
    /\ spc' = next
    /\ UNCHANGED <<tfd, client, sOpen, sAssoc, sExit, sBadClose, sErr, sEnv,
                   accepted, sclosed>>
    /\ UNCHANGED <<acceptQ, peerClosed, peer, npeer, cvars>>
    /\ UNCHANGED pvars

\* Mutant: the local-time message is tagged with the GMT stream.
SendLocal_on_gmt ==
    /\ spc = "send_local"
    /\ send_step(DAYTIME_STREAM_GMT, 1, "sctp_sendmsg failed (daytime_stream_local)",
                 "send_gmt")

\* Mutant: sctp_daytime gives the session up after the first send, going
\* straight to the close.
SendLocal_aborts ==
    /\ spc = "send_local"
    /\ send_step(DAYTIME_STREAM_LOCAL, 1, "sctp_sendmsg failed (daytime_stream_local)",
                 "close")

SendLocal ==
    /\ spc = "send_local"
    /\ send_step(DAYTIME_STREAM_LOCAL, 1, "sctp_sendmsg failed (daytime_stream_local)",
                 "send_gmt")

\* Mutant: the GMT message is tagged with the local stream.
SendGmt_on_local ==
    /\ spc = "send_gmt"
    /\ send_step(DAYTIME_STREAM_LOCAL, 0, "sctp_sendmsg failed (daytime_stream_gmt)",
                 "close")

\* Mutant: sctp_daytime returns after the second send without closing.
SendGmt_returns ==
    /\ spc = "send_gmt"
    /\ send_step(DAYTIME_STREAM_GMT, 0, "sctp_sendmsg failed (daytime_stream_gmt)",
                 "accept")

SendGmt ==
    /\ spc = "send_gmt"
    /\ send_step(DAYTIME_STREAM_GMT, 0, "sctp_sendmsg failed (daytime_stream_gmt)",
                 "close")

\* Mutant: sctp_daytime closes the listening socket in place of the association.
CloseClient_closes_listener ==
    /\ spc = "close"
    /\ LET c == sctp_close(sOpen, tfd)
           a == sAssoc[client]
           gone == client \notin c.open
       IN  /\ sOpen' = c.open
           /\ sBadClose' = (sBadClose \/ c.bad)
           /\ sAssoc' = [f \in Fds |-> IF f \in c.open THEN sAssoc[f] ELSE 0]
           /\ sclosed' = [sclosed EXCEPT ![a] = @ \/ gone]
           /\ peerClosed' = (peerClosed \/ (gone /\ a = Own))
    /\ message' = <<>>
    /\ results' = <<>>
    /\ spc' = "accept"
    /\ UNCHANGED <<tfd, client, sExit, sErr, slog, sEnv, sends, accepted>>
    /\ UNCHANGED <<acceptQ, rq, handed, peer, npeer, cvars>>
    /\ UNCHANGED pvars

\* sctp_daytime: sctp_close(client); the function returns (its message buffer and
\* send results are gone with its frame) and main loops.
CloseClient ==
    /\ spc = "close"
    /\ LET c == sctp_close(sOpen, client)
           a == sAssoc[client]
           gone == client \notin c.open
       IN  /\ sOpen' = c.open
           /\ sBadClose' = (sBadClose \/ c.bad)
           /\ sAssoc' = [f \in Fds |-> IF f \in c.open THEN sAssoc[f] ELSE 0]
           /\ sclosed' = [sclosed EXCEPT ![a] = @ \/ gone]
           /\ peerClosed' = (peerClosed \/ (gone /\ a = Own))
    /\ message' = <<>>
    /\ results' = <<>>
    /\ spc' = "accept"
    /\ UNCHANGED <<tfd, client, sExit, sErr, slog, sEnv, sends, accepted>>
    /\ UNCHANGED <<acceptQ, rq, handed, peer, npeer, cvars>>
    /\ UNCHANGED pvars

\* main after the loop: sctp_close(tfd); closelog(); return EXIT_SUCCESS.
MainExit ==
    /\ spc = "main_close"
    /\ LET c == sctp_close(sOpen, tfd)
       IN  /\ sOpen' = c.open
           /\ sBadClose' = (sBadClose \/ c.bad)
    /\ sExit' = {EXIT_SUCCESS}
    /\ spc' = "exited"
    /\ UNCHANGED <<tfd, client, message, results, sAssoc, sErr, slog, sEnv,
                   sends, accepted, sclosed>>
    /\ UNCHANGED <<nvars, cvars>>
    /\ UNCHANGED pvars

\* A remote SCTP client sets up an association with the listening server.
RemoteConnect(a) ==
    /\ a # Own
    /\ Listening
    /\ Len(acceptQ) < Backlog
    /\ ~accepted[a]
    /\ \A i \in 1..Len(acceptQ) : acceptQ[i] # a
    /\ acceptQ' = Append(acceptQ, a)
    /\ UNCHANGED <<svars, rq, handed, peerClosed, peer, npeer, cvars>>
    /\ UNCHANGED pvars

\* ------------------------------------------------------------ daytime steps
\* main: fd = sctp_connect(argv[1], argv[2]).  A candidate can connect ("ok") to
\* the daytimed server only while it listens and its backlog has room; to another
\* peer, whenever the environment says so.
Connect(kind) ==
    /\ cpc = "start"
    /\ \E gai \in GaiResults,
          cands \in CandSeqs({"sockfail", "connfail"} \cup
                      (IF kind = "other" \/ (Listening /\ Len(acceptQ) < Backlog)
                       THEN {"ok"} ELSE {})) :
          LET r == sctp_connect(gai, cands, cOpen) IN
          /\ cEnv' = ConnEnv(gai, cands)
          /\ cOpen' = r.open
          /\ cBadClose' = (cBadClose \/ r.bad)
          /\ err' = err \o r.err
          /\ cfd' = r.fd
          /\ IF r.exit
             THEN /\ cpc' = "exited"
                  /\ cExit' = {EXIT_FAILURE}
                  /\ UNCHANGED <<peer, acceptQ>>
             ELSE /\ cpc' = "daytime"
                  /\ cExit' = cExit
                  /\ peer' = kind
                  /\ acceptQ' = IF kind = "daytimed" THEN Append(acceptQ, Own) ELSE acceptQ
    /\ UNCHANGED <<lookup, evOk, rcvLog, rcvEnd, out>>
    /\ UNCHANGED <<svars, rq, handed, peerClosed, npeer>>
    /\ UNCHANGED pvars

\* Mutant: a failed lookup is only reported and the loop is entered all the same.
Lookup_soft ==
    /\ cpc = "daytime"
    /\ \E res \in {"ok", "getpeername", "getnameinfo"}, so \in BOOLEAN :
          /\ lookup' = res
          /\ err' = err
                \o (IF res = "getpeername"
                    THEN <<<<"daytime", ": getpeername: ", "strerror">>>>
                    ELSE IF res = "getnameinfo"
                    THEN <<<<"daytime", ": getnameinfo: ", "gai_strerror">>>>
                    ELSE <<>>)
                \o (IF so THEN <<>>
                    ELSE <<<<"daytime", ": setsockopt failed: ", "strerror">>>>)
          /\ evOk' = so
          /\ cpc' = "recv"
    /\ UNCHANGED <<cfd, cOpen, cExit, cBadClose, cEnv, rcvLog, rcvEnd, out>>
    /\ UNCHANGED <<svars, nvars>>
    /\ UNCHANGED pvars

\* daytime(fd) up to the loop: getpeername, getnameinfo (either failing: a
\* diagnostic and return), then setsockopt(SCTP_EVENTS) (failing: a diagnostic).
Lookup ==
    /\ cpc = "daytime"
    /\ \E res \in {"ok", "getpeername", "getnameinfo"}, so \in BOOLEAN :
          /\ lookup' = res
          /\ IF res = "getpeername"
             THEN /\ err' = Append(err, <<"daytime", ": getpeername: ", "strerror">>)
                  /\ cpc' = "main_close"
                  /\ evOk' = evOk
             ELSE IF res = "getnameinfo"
             THEN /\ err' = Append(err, <<"daytime", ": getnameinfo: ", "gai_strerror">>)
                  /\ cpc' = "main_close"
                  /\ evOk' = evOk
             ELSE /\ err' = IF so THEN err
                            ELSE Append(err, <<"daytime", ": setsockopt failed: ",
                                               "strerror">>)
                  /\ evOk' = so
                  /\ cpc' = "recv"
    /\ UNCHANGED <<cfd, cOpen, cExit, cBadClose, cEnv, rcvLog, rcvEnd, out>>
    /\ UNCHANGED <<svars, nvars>>
    /\ UNCHANGED pvars

\* One sctp_recvmsg of the loop returning n > 0, and the loop body.  Without the
\* event subscription sinfo is never written: sinfo_stream is indeterminate.
RecvMsg ==
    /\ cpc = "recv"
    /\ rq # <<>>
    /\ LET m == Head(rq) IN
       \E seen \in (IF evOk THEN {m.stream} ELSE Streams) :
          LET d == demux(seen, m.text) IN
          /\ rcvLog' = Append(rcvLog, [stream |-> m.stream, seen |-> seen,
                                       text |-> m.text])
          /\ out' = out \o d.out
          /\ err' = err \o d.err
    /\ rq' = Tail(rq)
    /\ UNCHANGED <<cpc, cfd, cOpen, cExit, cBadClose, cEnv, lookup, evOk, rcvEnd>>
    /\ UNCHANGED <<svars, acceptQ, handed, peerClosed, peer, npeer>>
    /\ UNCHANGED pvars

\* sctp_recvmsg returns 0 (the peer closed and nothing is left to read) or -1:
\* the loop ends and daytime returns.
RecvEnd ==
    /\ cpc = "recv"
    /\ \/ /\ rq = <<>>
          /\ peerClosed
          /\ rcvEnd' = "eof"
       \/ rcvEnd' = "error"
    /\ cpc' = "main_close"
    /\ UNCHANGED <<cfd, cOpen, cExit, cBadClose, cEnv, lookup, evOk, rcvLog, out, err>>
    /\ UNCHANGED <<svars, nvars>>
    /\ UNCHANGED pvars

\* Mutant: main reports a failed read in its exit status.
ClientExit_reports_error ==
    /\ cpc = "main_close"
    /\ LET r == client_sctp_close(cOpen, cfd)
       IN  /\ cOpen' = r.open
           /\ cBadClose' = (cBadClose \/ r.bad)
    /\ cExit' = IF rcvEnd = "error" THEN {EXIT_FAILURE} ELSE {EXIT_SUCCESS}
    /\ cpc' = "exited"
    /\ UNCHANGED <<cfd, cEnv, lookup, evOk, rcvLog, rcvEnd, out, err>>
    /\ UNCHANGED <<svars, nvars>>
    /\ UNCHANGED pvars

\* main: sctp_close(fd); return EXIT_SUCCESS.
ClientExit ==
    /\ cpc = "main_close"
    /\ LET r == client_sctp_close(cOpen, cfd)
       IN  /\ cOpen' = r.open
           /\ cBadClose' = (cBadClose \/ r.bad)
    /\ cExit' = {EXIT_SUCCESS}
    /\ cpc' = "exited"
    /\ UNCHANGED <<cfd, cEnv, lookup, evOk, rcvLog, rcvEnd, out, err>>
    /\ UNCHANGED <<svars, nvars>>
    /\ UNCHANGED pvars

\* ------------------------------------------------ an arbitrary SCTP peer
PeerSend ==
    /\ peer = "other"
    /\ ~peerClosed
    /\ npeer < MaxPeerMsgs
    /\ cfd \in cOpen
    /\ \E s \in Streams, t \in PeerTexts :
          rq' \in Deliveries(rq, [stream |-> s, text |-> t])
    /\ npeer' = npeer + 1
    /\ UNCHANGED <<svars, acceptQ, handed, peerClosed, peer, cvars>>
    /\ UNCHANGED pvars

PeerClose ==
    /\ peer = "other"
    /\ ~peerClosed
    /\ peerClosed' = TRUE
    /\ UNCHANGED <<svars, acceptQ, rq, handed, peer, npeer, cvars>>
    /\ UNCHANGED pvars

\* ----------------------------------------------------------- specifications
\* The server, the daytime client connecting to it, and remote clients.
Next ==
    \/ Listen
    \/ AcceptOk
    \/ AcceptFail
    \/ SendLocal
    \/ SendGmt
    \/ CloseClient
    \/ MainExit
    \/ \E a \in Assocs : RemoteConnect(a)
    \/ Connect("daytimed")
    \/ Lookup
    \/ RecvMsg
    \/ RecvEnd
    \/ ClientExit

Spec == Init /\ [][Next]_vars

\* The daytime client against an arbitrary SCTP peer.
PeerNext ==
    \/ Connect("other")
    \/ Lookup
    \/ RecvMsg
    \/ RecvEnd
    \/ ClientExit
    \/ PeerSend
    \/ PeerClose

PeerSpec == Init /\ [][PeerNext]_vars

\* The same runs under scheduling: a process that can take its next step takes
\* it.  For the server: the sends and the close of a session do not wait for the
\* peer.  Nothing forces accept to return or anyone to connect.
FairSpec ==
    /\ Spec
    /\ WF_vars(SendLocal) /\ WF_vars(SendGmt) /\ WF_vars(CloseClient)

\* For the client, against an arbitrary peer: the lookup and the exit are local;
\* a blocked read returns once a message is queued or, the peer having closed,
\* with 0.  Nothing forces a read to fail or the peer to close.
RecvEof == RecvEnd /\ rcvEnd' = "eof"

PeerFairSpec ==
    /\ PeerSpec
    /\ WF_vars(Lookup) /\ WF_vars(RecvMsg) /\ WF_vars(RecvEof) /\ WF_vars(ClientExit)

\* One call of sctp_connect or of sctp_listen, in a process that already holds
\* some descriptors (and can still open one), on every answer of the kernel.
ScanOpens == {open \in SUBSET Fds : HasFree(open)}

ScanConnect ==
    /\ scanKind = "none"
    /\ \E gai \in GaiResults, cands \in CandSeqs({"sockfail", "connfail", "ok"}),
          open \in ScanOpens :
          /\ scanIn' = [gai |-> gai, cands |-> cands, lis |-> TRUE, open |-> open]
          /\ scanOut' = sctp_connect(gai, cands, open)
    /\ scanKind' = "connect"
    /\ UNCHANGED <<svars, nvars, cvars>>

ScanListen ==
    /\ scanKind = "none"
    /\ \E gai \in GaiResults, cands \in CandSeqs({"sockfail", "bindfail", "ok"}),
          lis \in BOOLEAN, open \in ScanOpens :
          /\ scanIn' = [gai |-> gai, cands |-> cands, lis |-> lis, open |-> open]
          /\ scanOut' = sctp_listen(gai, cands, lis, open)
    /\ scanKind' = "listen"
    /\ UNCHANGED <<svars, nvars, cvars>>

ScanNext == ScanConnect \/ ScanListen

ScanSpec == Init /\ [][ScanNext]_vars

\* ------------------------------------------------------------------ claims
InSession == spc \in {"send_local", "send_gmt", "close"}

OpenAssocs == {f \in sOpen : sAssoc[f] # 0}

LocalFailed == "sctp_sendmsg failed (daytime_stream_local)"
GmtFailed == "sctp_sendmsg failed (daytime_stream_gmt)"
TmFailed == "localtime or gmtime failed"

\* C1: on every accepted association the server issues exactly two sends, the
\* first on stream 0 and the second on stream 1: the sends issued so far are a
\* prefix of <<0, 1>>, none is issued before the accept, and once the server has
\* closed the association they are exactly <<0, 1>>.
C1_TwoSendsInOrder ==
    \A a \in Assocs :
        /\ sends[a] \in {<<>>, <<DAYTIME_STREAM_LOCAL>>,
                         <<DAYTIME_STREAM_LOCAL, DAYTIME_STREAM_GMT>>}
        /\ (~accepted[a] => sends[a] = <<>>)
        /\ (sclosed[a] => sends[a] = <<DAYTIME_STREAM_LOCAL, DAYTIME_STREAM_GMT>>)
        /\ (spc = "close" /\ sAssoc[client] = a
              => sends[a] = <<DAYTIME_STREAM_LOCAL, DAYTIME_STREAM_GMT>>)

\* Every association has been served, one of them with the formatter failing.
C1_Witness ==
    /\ \A a \in Assocs : sclosed[a]
                         /\ sends[a] = <<DAYTIME_STREAM_LOCAL, DAYTIME_STREAM_GMT>>
    /\ TmFailed \in slog

\* The streams of the messages the client has received, in order.
RcvStreams == [i \in 1..Len(rcvLog) |-> rcvLog[i].stream]

Count(seq, x) == Cardinality({i \in 1..Len(seq) : seq[i] = x})

C3_ClosedAfterSends ==
    /\ (~InSession => OpenAssocs = {})
    /\ \A a \in Assocs : ~InSession /\ accepted[a] => sclosed[a]
    /\ \A a \in Assocs : sclosed[a] => Len(sends[a]) = 2
    /\ (spc = "close" => Len(results) = 2 /\ client \in sOpen)

\* An association was closed although both of its sends failed.
C3_Witness ==
    /\ Cardinality({a \in Assocs : sclosed[a]}) = 1
    /\ Cardinality({a \in Assocs : accepted[a]}) = 1
    /\ {LocalFailed, GmtFailed} \subseteq slog
    /\ spc = "accept"
    /\ OpenAssocs = {}

C4_State ==
    /\ Cardinality(OpenAssocs) <= 1
    /\ \A a \in Assocs :
          accepted[a] /\ ~sclosed[a]
              => /\ InSession
                 /\ client \in sOpen
                 /\ sAssoc[client] = a
                 /\ \A b \in Assocs \ {a} : sends[b] # <<>> => sclosed[b]

C4_Step ==
    \A a \in Assocs :
        /\ (accepted'[a] /\ ~accepted[a]
              => \A b \in Assocs \ {a} : accepted[b] => sclosed[b])
        /\ (sends'[a] # sends[a]
              => \A b \in Assocs \ {a} : accepted[b] => sclosed[b])

\* C4: the server holds at most one open accepted association: an association
\* that is accepted and not yet closed is the one sctp_daytime is serving, every
\* other association with sends on it is closed, and an accept or a send happens
\* only when every other accepted association has been closed.
C4_OneAtATime == [](C4_State) /\ [][C4_Step]_vars

\* A second association waits in the backlog while the first, with a send
\* already issued on it, is still open.
C4_Witness ==
    \E a, b \in Assocs :
        /\ a # b
        /\ accepted[a] /\ ~sclosed[a]
        /\ sends[a] # <<>>
        /\ acceptQ = <<b>>

LabelOf(stream) ==
    IF stream = DAYTIME_STREAM_LOCAL THEN "(local time)" ELSE "(gmt time)"

NoSendFailure == slog \cap {LocalFailed, GmtFailed, TmFailed} = {}

\* C5 as claimed: in an end-to-end run with both sends succeeding the client
\* prints the "(local time)" line before the "(gmt time)" line, whatever the
\* order in which the two streams deliver.
C5_StreamOrder ==
    (peer = "daytimed" /\ evOk /\ NoSendFailure)
        => \A i \in 1..Len(out) :
              out[i].label = "(gmt time)"
                  => \E j \in 1..(i - 1) : out[j].label = "(local time)"

\* C5 as amended: the client prints one line per received message in the order
\* in which the messages are received, each labelled by its stream; the
\* "(local time)" line precedes the "(gmt time)" line exactly when the stream 0
\* message is received before the stream 1 message.
C5_ReceiveOrder ==
    (peer = "daytimed" /\ evOk)
        => /\ Len(out) = Len(rcvLog)
           /\ \A i \in 1..Len(out) : out[i].label = LabelOf(rcvLog[i].stream)

\* Both sends succeeded, stream 1 was delivered first, and the gmt line was
\* printed before the local line.
C5_Witness ==
    /\ peer = "daytimed"
    /\ evOk
    /\ NoSendFailure
    /\ Len(out) = 2
    /\ out[1].label = "(gmt time)"
    /\ out[2].label = "(local time)"

KnownStream(st) == st \in {DAYTIME_STREAM_LOCAL, DAYTIME_STREAM_GMT}

\* One more message was received and its stream identifier is neither 0 nor 1.
RecvUnknown ==
    /\ Len(rcvLog') = Len(rcvLog) + 1
    /\ ~KnownStream(rcvLog'[Len(rcvLog')].seen)

C6_Step ==
    RecvUnknown
        => /\ out' = out
           /\ err' = Append(err, <<"daytime", ": ignoring message from unknown stream ",
                                   StreamStr(rcvLog'[Len(rcvLog')].seen)>>)
           /\ cpc' = "recv"
           /\ cfd' \in cOpen'
           /\ cExit' = {}

C6_State ==
    Len(out) = Cardinality({i \in 1..Len(rcvLog) : KnownStream(rcvLog[i].seen)})

C7_FailedConnectExits ==
    cEnv \in {"unresolved", "exhausted"}
        => /\ cpc = "exited"
           /\ cExit # {}
           /\ EXIT_SUCCESS \notin cExit
           /\ peer = "none"
           /\ lookup = "none"
           /\ rcvEnd = "none"
           /\ rcvLog = <<>>
           /\ out = <<>>

\* Every candidate failed against a listening server.
C7_Witness ==
    /\ cEnv = "exhausted"
    /\ Listening
    /\ cpc = "exited"

Mentions(msg, x) == \E i \in 1..Len(msg) : msg[i] = x

\* C8 as claimed: on every fatal failure of sctp_connect the message written
\* before the exit names the host and the port arguments.
C8_NamesHostPort ==
    cEnv \in {"unresolved", "exhausted"}
        => /\ err # <<>>
           /\ Mentions(Last(err), HostArg)
           /\ Mentions(Last(err), PortArg)

\* C8 as amended: on exhaustion of the candidates the message names the host and
\* the port arguments; on a resolution failure it names the program and
\* getaddrinfo's error text only.
C8_NamesOnExhaustion ==
    /\ cEnv = "exhausted"
          => /\ cExit = {EXIT_FAILURE}
             /\ Len(err) = 1
             /\ Mentions(err[1], HostArg)
             /\ Mentions(err[1], PortArg)
    /\ cEnv = "unresolved"
          => /\ cExit = {EXIT_FAILURE}
             /\ err = <<<<"daytime", ": getaddrinfo: ", "gai_strerror">>>>
             /\ ~Mentions(err[1], HostArg)
             /\ ~Mentions(err[1], PortArg)

\* The candidates were exhausted and the message was written.
C8_Witness ==
    /\ cEnv = "exhausted"
    /\ cExit = {EXIT_FAILURE}
    /\ err # <<>>

\* C9 as claimed: when sctp_listen fails (resolution, bind on every candidate,
\* or listen) the server process exits with a non-zero status.
C9_ListenFailureExitsNonZero ==
    (sEnv \in {"unresolved", "exhausted", "listen_failed"} /\ spc = "exited")
        => /\ sExit # {}
           /\ EXIT_SUCCESS \notin sExit

LookupFailed == lookup \in {"getpeername", "getnameinfo"}

\* C10 as claimed: after a failed getpeername or getnameinfo the client is in
\* its receive loop, or has been through it.
C10_LookupFailsSoft == LookupFailed => (cpc = "recv" \/ rcvEnd # "none")

\* C10 as amended: when getpeername or getnameinfo fails the client prints the
\* diagnostic of that call and returns from daytime() without entering the
\* receive loop: it reads no message and prints no line, and main closes the
\* association and exits with status 0.
C10_LookupFailureReturns ==
    LookupFailed
        => /\ cpc \in {"main_close", "exited"}
           /\ rcvEnd = "none"
           /\ rcvLog = <<>>
           /\ out = <<>>
           /\ err = <<<<"daytime", ": " \o lookup \o ": ",
                        IF lookup = "getpeername" THEN "strerror" ELSE "gai_strerror">>>>
           /\ (cpc = "exited" => cExit = {EXIT_SUCCESS} /\ cfd \notin cOpen)

\* The lookup failed and the client exited leaving a message of the server unread.
C10_Witness ==
    /\ lookup = "getnameinfo"
    /\ cpc = "exited"
    /\ peer = "daytimed"
    /\ rq # <<>>

\* The message buffer of the session in progress is empty: the formatter failed
\* for the send just made (local time at "send_gmt", GMT at "close").
EmptyAfter(pc) == spc = pc /\ message = <<>>

\* C11 as claimed: when the formatter fails, no send is issued on the
\* corresponding stream.
C11_NoSendOnEmpty ==
    /\ EmptyAfter("send_gmt") => Count(sends[sAssoc[client]], DAYTIME_STREAM_LOCAL) = 0
    /\ EmptyAfter("close") => Count(sends[sAssoc[client]], DAYTIME_STREAM_GMT) = 0

C11_State ==
    /\ EmptyAfter("send_gmt") =>
          /\ TmFailed \in slog
          /\ sends[sAssoc[client]] = <<DAYTIME_STREAM_LOCAL>>
          /\ results \in {<<0>>, <<-1>>}
          /\ sAssoc[client] = Own => Count(handed, DAYTIME_STREAM_LOCAL) = 0
    /\ EmptyAfter("close") =>
          /\ TmFailed \in slog
          /\ sends[sAssoc[client]] = <<DAYTIME_STREAM_LOCAL, DAYTIME_STREAM_GMT>>
          /\ Len(results) = 2
          /\ results[2] \in {0, -1}
          /\ sAssoc[client] = Own => Count(handed, DAYTIME_STREAM_GMT) = 0

C11_Step ==
    (InSession /\ spc' # spc /\ TmFailed \in slog' /\ TmFailed \notin slog) =>
        /\ message' = <<>>
        /\ Len(sends'[sAssoc[client]]) = Len(sends[sAssoc[client]]) + 1
        /\ rq' = rq
        /\ handed' = handed
        /\ client' = client
        /\ client \in sOpen'

\* What sctp_daytime does when the formatter fails (C11): the message is the
\* empty string and the send is still issued on the corresponding stream, with
\* length 0: the call is recorded on the association, returns 0 or -1, hands
\* nothing to the client, and the session goes on with the association open.
C11_EmptyStillSent == [](C11_State) /\ [][C11_Step]_vars

\* The GMT formatter failed on the client's association and the send of the
\* empty message was issued and returned 0.
C11_Witness ==
    /\ EmptyAfter("close")
    /\ sAssoc[client] = Own
    /\ results[2] = 0
    /\ sends[Own] = <<DAYTIME_STREAM_LOCAL, DAYTIME_STREAM_GMT>>

\* A step in which accept fails: sctp_accept logs the failure and returns -1.
\* (A failure that follows a failure changes nothing at all.)
AcceptFailStep ==
    /\ spc = "accept"
    /\ \/ client # NoFd /\ client' = NoFd
       \/ "accept failed" \notin slog /\ "accept failed" \in slog'

C12_Step ==
    AcceptFailStep =>
        /\ spc' = "accept"
        /\ tfd' = tfd
        /\ sOpen' = sOpen
        /\ sAssoc' = sAssoc
        /\ sends' = sends
        /\ sclosed' = sclosed
        /\ accepted' = accepted
        /\ sBadClose' = sBadClose
        /\ acceptQ' = acceptQ
        /\ rq' = rq
        /\ peerClosed' = peerClosed
        /\ sExit' = {}

C12_State ==
    /\ "accept failed" \in slog => Listening /\ sExit = {}
    /\ (spc # "start" /\ sEnv = "ok" /\ client = NoFd) => spc = "accept" /\ tfd \in sOpen

\* C12: a failed accept never terminates the server and causes no send and no
\* close: the step leaves every association, the descriptor table and the
\* listening handle as they were, the server stays in the accept loop (its next
\* step is an accept on the same handle), and it has not exited.
C12_FailedAcceptSkips == [](C12_State) /\ [][C12_Step]_vars

\* accept has failed right after a served session, with another association
\* waiting to be accepted on the listening handle.
C12_Witness ==
    /\ spc = "accept"
    /\ client = NoFd
    /\ "accept failed" \in slog
    /\ tfd \in sOpen
    /\ \E a \in Assocs : sclosed[a]
    /\ acceptQ # <<>>

\* C13: every socket a program has opened is closed again on every path by which
\* the function or the process ends.  After sctp_connect has returned only the
\* connected socket is open, and nothing is once the client has exited (also
\* through sctp_connect's own exit); after sctp_listen has returned only the
\* listening socket is open, and nothing is when it has failed, whether on bind
\* for every candidate or on listen after a bind; during a session the accepted
\* association is the only other open socket, and none is left between sessions.
C13_EverySocketClosed ==
    /\ cpc \in {"daytime", "recv", "main_close"} => cOpen = {cfd}
    /\ cpc = "exited" => cOpen = {}
    /\ spc \in {"main_close", "exited"} => sOpen = {}
    /\ spc = "accept" => sOpen = {tfd} /\ OpenAssocs = {}
    /\ InSession => sOpen = {tfd, client} /\ OpenAssocs = {client}

\* The server has ended after listen failed on a socket it had bound, and the
\* client has ended through the exit of sctp_connect, every candidate failed.
C13_Witness ==
    /\ spc = "exited"
    /\ sEnv = "listen_failed"
    /\ sOpen = {}
    /\ cpc = "exited"
    /\ cEnv = "exhausted"
    /\ cOpen = {}

\* The first candidate of the examined call for which socket and connect (bind)
\* both succeed; 0 when there is none.
FirstOk ==
    LET oks == {i \in 1..Len(scanIn.cands) : scanIn.cands[i] = "ok"}
    IN  IF oks = {} THEN 0 ELSE CHOOSE i \in oks : \A o \in oks : i <= o

\* The handle the examined call returns: the connected socket of sctp_connect, the
\* return value of sctp_listen.
ScanHandle == IF scanKind = "connect" THEN scanOut.fd ELSE scanOut.ret

\* C14: the candidate scan of sctp_connect and of sctp_listen tries the
\* candidates strictly in resolution order and stops at the first for which
\* socket and connect (bind) succeed: the candidates tried are 1, 2, ... up to
\* that one (all of them when there is none), no later one is tried, the handle
\* returned is the socket opened for it, and it is the only descriptor the call
\* leaves open beyond those open before, so every earlier candidate's socket is
\* closed.  (When listen then fails sctp_listen closes that socket too.)
C14_FirstSuccessWins ==
    (scanKind # "none" /\ scanIn.gai = 0) =>
        /\ scanOut.ai = FirstOk
        /\ scanOut.att = [i \in 1..(IF FirstOk = 0 THEN Len(scanIn.cands) ELSE FirstOk)
                             |-> i]
        /\ ~scanOut.bad
        /\ IF FirstOk # 0 /\ scanIn.lis
           THEN /\ ScanHandle = LowestFree(scanIn.open)
                /\ scanOut.open = scanIn.open \cup {ScanHandle}
           ELSE scanOut.open = scanIn.open

\* A scan whose first candidate fails to connect, whose second connects, and whose
\* third would connect as well.
C14_Witness ==
    /\ scanKind = "connect"
    /\ scanIn.gai = 0
    /\ scanIn.cands = <<"connfail", "ok", "ok">>
    /\ scanOut.ai = 2
    /\ scanOut.att = <<1, 2>>
    /\ scanOut.fd \notin scanIn.open

\* The first send of the session in progress did not return the length of its
\* message (at "send_gmt" the buffer still holds that message).
FirstSendMismatch == spc = "send_gmt" /\ results[1] # Len(message)

C15_State ==
    /\ FirstSendMismatch =>
          /\ LocalFailed \in slog
          /\ client \in sOpen
          /\ sAssoc[client] # 0
          /\ ~sclosed[sAssoc[client]]
          /\ sends[sAssoc[client]] = <<DAYTIME_STREAM_LOCAL>>
    /\ spc = "close" =>
          /\ Len(results) = 2
          /\ sends[sAssoc[client]] = <<DAYTIME_STREAM_LOCAL, DAYTIME_STREAM_GMT>>

C15_Step ==
    /\ (spc = "send_local" /\ spc' # spc) =>
          /\ spc' = "send_gmt"
          /\ client' = client
          /\ sOpen' = sOpen
    /\ (FirstSendMismatch /\ spc' # spc) =>
          /\ spc' = "close"
          /\ sends'[sAssoc[client]] = <<DAYTIME_STREAM_LOCAL, DAYTIME_STREAM_GMT>>
          /\ client \in sOpen'

\* C15: a size mismatch on the first send, an error return included, does not end
\* the session: the failure is logged, the association stays open, the next step
\* of the server is the send on stream 1, and the close comes only after it.
C15_MismatchGoesOn == [](C15_State) /\ [][C15_Step]_vars

\* The first send returned -1, and the second was issued and accepted in full.
C15_Witness ==
    /\ spc = "close"
    /\ results[1] = -1
    /\ message # <<>>
    /\ results[2] = Len(message)
    /\ sends[sAssoc[client]] = <<DAYTIME_STREAM_LOCAL, DAYTIME_STREAM_GMT>>

\* The message up to its first CR LF pair, the whole message when it has none.
UpToCRLF(msg) ==
    LET hits == {i \in 1..(Len(msg) - 1) : msg[i] = "CR" /\ msg[i + 1] = "LF"}
    IN  IF hits = {} THEN msg
        ELSE Prefix(msg, (CHOOSE i \in hits : \A j \in hits : i <= j) - 1)

\* The longest prefix of the message with no NUL and no CR LF pair in it.
PrintedText(msg) ==
    LET stops == {i \in 1..Len(msg) :
                     \/ msg[i] = "NUL"
                     \/ i < Len(msg) /\ msg[i] = "CR" /\ msg[i + 1] = "LF"}
    IN  IF stops = {} THEN msg
        ELSE Prefix(msg, (CHOOSE i \in stops : \A j \in stops : i <= j) - 1)

OnKnownStream(m) == KnownStream(m.stream)
SeenOnKnownStream(m) == KnownStream(m.seen)

\* C16: the lines on stdout are, in receive order, one for each message received
\* on stream 0 or 1 and none for any other message; each carries the label of its
\* message's stream and the message's text up to its first CR LF.
C16_OneLinePerKnownStream ==
    LET known == SelectSeq(rcvLog, OnKnownStream) IN
    /\ Len(out) = Len(known)
    /\ \A i \in 1..Len(out) :
          /\ out[i].label = LabelOf(known[i].stream)
          /\ out[i].text = UpToCRLF(known[i].text)

\* What the receive loop does (C16): it goes by the stream number it finds in
\* sinfo, which is the message's only when the event subscription is in place,
\* and it prints the buffer as a C string, which ends at a NUL as well.
C16_OneLinePerSeenStream ==
    LET known == SelectSeq(rcvLog, SeenOnKnownStream) IN
    /\ Len(out) = Len(known)
    /\ \A i \in 1..Len(out) :
          /\ out[i].label = LabelOf(known[i].seen)
          /\ out[i].text = PrintedText(known[i].text)
    /\ evOk => \A i \in 1..Len(rcvLog) : rcvLog[i].seen = rcvLog[i].stream

C17_State == sEnv = "ok" => Listening /\ sExit = {} /\ ~sBadClose

C17_Step == sEnv = "ok" => tfd' = tfd /\ tfd \in sOpen'

\* C17: once sctp_listen has succeeded the server never terminates, never closes
\* the listening handle and never changes it, and from inside every session it
\* comes back to the accept on that handle.
C17_ServesForever ==
    /\ [](C17_State)
    /\ [][C17_Step]_vars
    /\ (InSession ~> (spc = "accept" /\ tfd \in sOpen))

\* Back at the accept after a served session and a failed accept, the listening
\* handle open.
C17_Witness ==
    /\ sEnv = "ok"
    /\ spc = "accept"
    /\ tfd \in sOpen
    /\ \E a \in Assocs : sclosed[a]
    /\ "accept failed" \in slog
    /\ \E a \in Assocs : accepted[a] /\ sends[a] = <<DAYTIME_STREAM_LOCAL, DAYTIME_STREAM_GMT>>

\* C18: every close is issued on a descriptor that is open at that moment, in
\* the server and in the client: none on a closed descriptor, on the failure
\* sentinel -1, or on a socket that was never created.
C18_EveryCloseOnOpenHandle == ~sBadClose /\ ~cBadClose

\* The client's connect has succeeded (a socket is connected).
Connected == cEnv = "ok"

C19_State ==
    /\ (Connected /\ cpc = "exited") =>
          /\ cExit = {EXIT_SUCCESS}
          /\ cfd \notin cOpen
          /\ ~cBadClose
    /\ (Connected /\ cpc # "exited") => cfd \in cOpen /\ cExit = {}
    /\ (rcvEnd # "none" \/ LookupFailed) => cpc \in {"main_close", "exited"}

C19_Step ==
    /\ (cfd \in cOpen /\ cfd' \notin cOpen') => cpc = "main_close" /\ cpc' = "exited"
    /\ rcvEnd' # rcvEnd => cpc = "recv" /\ cpc' = "main_close" /\ rcvLog' = rcvLog
    /\ cpc = "exited" => cpc' = "exited" /\ cExit' = cExit

\* C19: once connect has succeeded the client ends with exit status 0 after
\* closing its association exactly once (the one close is main's, on the open
\* socket), whether messages were received or not and also after a failed read
\* or a failed lookup; the receive loop ends at the first read that returns
\* zero or less; and the client does end once the peer has closed, a read has
\* returned zero or less, or the lookup has failed.
C19_ClientEndsWithZero ==
    /\ [](C19_State)
    /\ [][C19_Step]_vars
    /\ ((Connected /\ (peerClosed \/ rcvEnd # "none" \/ LookupFailed))
            ~> (cpc = "exited" /\ cExit = {EXIT_SUCCESS}))

\* The client has ended with status 0 after its first read failed, no message
\* received, its socket closed.
C19_Witness ==
    /\ Connected
    /\ cpc = "exited"
    /\ rcvEnd = "error"
    /\ rcvLog = <<>>
    /\ cExit = {EXIT_SUCCESS}
    /\ cfd \notin cOpen

====
